---- MODULE Spec2Model ----
(***************************************************************************)
(* Book-tracking: a browser-local reading tracker (src/app.js, lines       *)
(* 1-1618, the variant with categories, covers, edit and export/import).   *)
(* The store is the script's global state plus the localStorage slices it  *)
(* writes; every event handler is one atomic action (the page is           *)
(* single-threaded and every handler runs to completion).                  *)
(*                                                                         *)
(* Representation.  A calendar date string 'YYYY-MM-DD' is a day number.   *)
(* A book id (Date.now().toString()) is the clock reading it was made      *)
(* from.  A localStorage slot, and a key of an import document, is <<>>    *)
(* when absent and <<v>> when present.  Activity types are written in      *)
(* English (the source's are Bulgarian), and so are the messages.          *)
(* The first revision of the program (src/unnamed/part_000) is modelled    *)
(* beside it, its definitions named ...Basic.                              *)
(***************************************************************************)
EXTENDS Integers, Sequences, FiniteSets, TLC

VARIABLES
    books,          \* let books = []                        (app.js:51)
    currentStreak,  \* let currentStreak = 0                 (app.js:52)
    longestStreak,  \* let longestStreak = 0                 (app.js:53)
    activityFeed,   \* let activityFeed = []                 (app.js:54)
    achievements,   \* let achievements = []                 (app.js:55)
    dailyGoal,      \* let dailyGoal = 50                    (app.js:56)
    storage,        \* localStorage: books, streaks, activityFeed, achievements
    exportFiles,    \* the backup files exportData has downloaded
    now,            \* the clock reading of the last Date.now()
    utcDay,         \* the UTC calendar day of the clock
    tzOffset,       \* the browser's timezone: -1 west of UTC, 0 UTC, 1 east
    localShift,     \* local calendar day of the clock minus utcDay
    lastCall,       \* history: the handler that ran last
    written         \* history: the localStorage keys the last handler wrote

vars == <<books, currentStreak, longestStreak, activityFeed, achievements,
          dailyGoal, storage, exportFiles, now, utcDay, tzOffset, localShift,
          lastCall, written>>

----------------------------------------------------------------------------
(* Bounds of the model *)

MaxBooks == 2
MaxLogs == 2
MaxNow == 2
MaxDay == 3
MaxEvents == 4
MaxBackupEvents == 4
MaxExports == 1
MaxTotal == 200

(* Program constants *)

FeedCap == 50
DefaultDailyGoal == 50
FiveBooks == 5
StreakWeek == 7
StreakMonth == 30

----------------------------------------------------------------------------
(* Small arithmetic and sequence helpers *)

Max(a, b) == IF a >= b THEN a ELSE b

Min(a, b) == IF a <= b THEN a ELSE b

Range(s) == {s[i] : i \in 1..Len(s)}

RECURSIVE SumAmounts(_)
SumAmounts(logs) ==
    IF logs = <<>> THEN 0 ELSE Head(logs).amount + SumAmounts(Tail(logs))

----------------------------------------------------------------------------
(* class Book (app.js:6-45) *)

Book(id, name, author, type, total, category, coverUrl) ==
    [id |-> id, name |-> name, author |-> author, type |-> type,
     total |-> total, category |-> category, coverUrl |-> coverUrl,
     logs |-> <<>>, status |-> "planned", completed |-> FALSE]

getTotalProgress(book) == SumAmounts(book.logs)

(* Math.round of the quotient num/den, den > 0: the nearest integer, a half *)
(* going up.                                                                *)
MathRound(num, den) == (2 * num + den) \div (2 * den)

(* The pairs <<progress, total>> with progress < total <= 401 whose exact   *)
(* percentage ends in .5 while the double (progress / total) * 100 falls    *)
(* just below it, so that Math.round gives the integer below.               *)
HalfLost ==
    {<<23, 40>>, <<46, 80>>, <<69, 120>>, <<92, 160>>, <<29, 200>>,
     <<57, 200>>, <<113, 200>>, <<115, 200>>, <<138, 240>>, <<161, 280>>,
     <<184, 320>>, <<207, 360>>, <<58, 400>>, <<114, 400>>, <<226, 400>>,
     <<230, 400>>}

RoundedPercent(progress, total) ==
    IF total > 0
    THEN MathRound(100 * progress, total)
         - (IF <<progress, total>> \in HalfLost THEN 1 ELSE 0)
    ELSE MathRound(-100 * progress, -total)

(* getProgressPercentage with the Math.min(..., 100) left out *)
getProgressPercentageUnclamped(book) ==
    IF book.total = 0
    THEN 0
    ELSE RoundedPercent(getTotalProgress(book), book.total)

getProgressPercentage(book) ==
    IF book.total = 0
    THEN 0
    ELSE Min(RoundedPercent(getTotalProgress(book), book.total), 100)

(* getRemainingAmount with the Math.max(..., 0) left out *)
getRemainingAmountUnclamped(book) == book.total - getTotalProgress(book)

getRemainingAmount(book) == Max(book.total - getTotalProgress(book), 0)

(* updateStatus comparing with > where the code has >= *)
updateStatusBeyondTarget(book) ==
    LET progress == getTotalProgress(book)
    IN  IF progress = 0
        THEN [book EXCEPT !.status = "planned"]
        ELSE IF progress > book.total
             THEN [book EXCEPT !.status = "completed", !.completed = TRUE]
             ELSE [book EXCEPT !.status = "in-progress"]

updateStatus(book) ==
    LET progress == getTotalProgress(book)
    IN  IF progress = 0
        THEN [book EXCEPT !.status = "planned"]
        ELSE IF progress >= book.total
             THEN [book EXCEPT !.status = "completed", !.completed = TRUE]
             ELSE [book EXCEPT !.status = "in-progress"]

(* logs.sort((a, b) => new Date(b.date) - new Date(a.date)): a stable sort, *)
(* newest date first; entries of one date keep their order.                 *)
RECURSIVE InsertByDate(_, _)
InsertByDate(sorted, log) ==
    IF sorted = <<>> THEN <<log>>
    ELSE IF Head(sorted).date >= log.date
         THEN <<Head(sorted)>> \o InsertByDate(Tail(sorted), log)
         ELSE <<log>> \o sorted

RECURSIVE SortLogs(_)
SortLogs(logs) ==
    IF logs = <<>> THEN <<>>
    ELSE InsertByDate(SortLogs(SubSeq(logs, 1, Len(logs) - 1)), logs[Len(logs)])

(* books.find(b => b.id === bookId): the index of the first match, 0 when   *)
(* there is none.                                                           *)
FindBook(bs, bookId) ==
    IF \E i \in 1..Len(bs) : bs[i].id = bookId
    THEN CHOOSE i \in 1..Len(bs) :
            /\ bs[i].id = bookId
            /\ \A j \in 1..(i - 1) : bs[j].id # bookId
    ELSE 0

(* books.filter(b => b.id !== bookId) *)
RECURSIVE RemoveBook(_, _)
RemoveBook(bs, bookId) ==
    IF bs = <<>> THEN <<>>
    ELSE IF Head(bs).id = bookId
         THEN RemoveBook(Tail(bs), bookId)
         ELSE <<Head(bs)>> \o RemoveBook(Tail(bs), bookId)

----------------------------------------------------------------------------
(* The clock and the browser's timezone *)

(* new Date().toISOString().split('T')[0] (app.js:469): the UTC date *)
IsoToday == utcDay

(* const today = new Date(); today.setHours(0, 0, 0, 0) (app.js:757-758):  *)
(* the local calendar day.                                                 *)
LocalToday == utcDay + localShift

(* new Date(dateString) is UTC midnight of that date; setHours(0, 0, 0, 0) *)
(* moves it to the local midnight before it (app.js:761-762): the same     *)
(* calendar day at or east of UTC, the day before west of UTC.             *)
LocalDayOf(date) == IF tzOffset < 0 THEN date - 1 ELSE date

----------------------------------------------------------------------------
(* The store a handler works on: the globals, localStorage and the keys    *)
(* written so far.                                                         *)

Store ==
    [books |-> books, currentStreak |-> currentStreak,
     longestStreak |-> longestStreak, activityFeed |-> activityFeed,
     achievements |-> achievements, dailyGoal |-> dailyGoal,
     storage |-> storage, written |-> {}]

NoStorage ==
    [books |-> <<>>, streaks |-> <<>>, activityFeed |-> <<>>,
     achievements |-> <<>>]

saveBooks(s) ==
    [s EXCEPT !.storage.books = <<s.books>>,
              !.written = @ \cup {"books"}]

saveStreaks(s) ==
    [s EXCEPT !.storage.streaks =
                  <<[currentStreak |-> s.currentStreak,
                     longestStreak |-> s.longestStreak]>>,
              !.written = @ \cup {"streaks"}]

saveActivityFeed(s) ==
    [s EXCEPT !.storage.activityFeed = <<s.activityFeed>>,
              !.written = @ \cup {"activityFeed"}]

saveAchievements(s) ==
    [s EXCEPT !.storage.achievements = <<s.achievements>>,
              !.written = @ \cup {"achievements"}]

(* addActivity (app.js:1154-1165): unshift, pop beyond 50, save *)
addActivity(s, type, message, bookName) ==
    LET activity == [type |-> type, message |-> message, bookName |-> bookName]
        unshifted == <<activity>> \o s.activityFeed
        kept == IF Len(unshifted) > FeedCap
                THEN SubSeq(unshifted, 1, Len(unshifted) - 1)
                ELSE unshifted
    IN  saveActivityFeed([s EXCEPT !.activityFeed = kept])

----------------------------------------------------------------------------
(* updateStreaks (app.js:736-797) *)

AllDates(bs) ==
    UNION {{bs[i].logs[j].date : j \in 1..Len(bs[i].logs)} : i \in 1..Len(bs)}

(* Array.from(allDates).sort((a, b) => new Date(b) - new Date(a)) *)
RECURSIVE SortedDates(_)
SortedDates(dates) ==
    IF dates = {} THEN <<>>
    ELSE LET newest == CHOOSE d \in dates : \A e \in dates : e <= d
         IN  <<newest>> \o SortedDates(dates \ {newest})

(* The first loop: the number of leading dates, from index i (0-based) on, *)
(* that are the local day i days before today.                             *)
RECURSIVE LeadingRun(_, _)
LeadingRun(sortedDates, i) ==
    IF i < Len(sortedDates) /\ LocalDayOf(sortedDates[i + 1]) = LocalToday - i
    THEN 1 + LeadingRun(sortedDates, i + 1)
    ELSE 0

(* The second loop, from index i (0-based) on with tempStreak and          *)
(* maxStreak as they stand: the final maxStreak.                           *)
RECURSIVE LongestRun(_, _, _, _)
LongestRun(sortedDates, i, tempStreak, maxStreak) ==
    IF i >= Len(sortedDates) - 1 THEN maxStreak
    ELSE LET diffDays == LocalDayOf(sortedDates[i + 1])
                         - LocalDayOf(sortedDates[i + 2])
         IN  IF diffDays = 1
             THEN LongestRun(sortedDates, i + 1, tempStreak + 1,
                             Max(maxStreak, tempStreak + 1))
             ELSE LongestRun(sortedDates, i + 1, 1, maxStreak)

(* updateStreaks leaving the longest streak as it is when there is no log *)
updateStreaksKeepingLongest(s) ==
    LET allDates == AllDates(s.books)
        sortedDates == SortedDates(allDates)
        current == LeadingRun(sortedDates, 0)
        maxStreak == LongestRun(sortedDates, 0, 1, 1)
    IN  IF allDates = {}
        THEN [s EXCEPT !.currentStreak = 0]
        ELSE [s EXCEPT !.currentStreak = current,
                       !.longestStreak =
                           Max(Max(s.longestStreak, maxStreak), current)]

(* updateStreaks taking the longest streak from the dates alone, without *)
(* the value it had                                                      *)
updateStreaksFromDatesAlone(s) ==
    LET allDates == AllDates(s.books)
        sortedDates == SortedDates(allDates)
        current == LeadingRun(sortedDates, 0)
        maxStreak == LongestRun(sortedDates, 0, 1, 1)
    IN  IF allDates = {}
        THEN [s EXCEPT !.currentStreak = 0, !.longestStreak = 0]
        ELSE [s EXCEPT !.currentStreak = current,
                       !.longestStreak = Max(maxStreak, current)]

updateStreaks(s) ==
    LET allDates == AllDates(s.books)
        sortedDates == SortedDates(allDates)
        current == LeadingRun(sortedDates, 0)
        maxStreak == LongestRun(sortedDates, 0, 1, 1)
    IN  IF allDates = {}
        THEN [s EXCEPT !.currentStreak = 0, !.longestStreak = 0]
        ELSE [s EXCEPT !.currentStreak = current,
                       !.longestStreak =
                           Max(Max(s.longestStreak, maxStreak), current)]

----------------------------------------------------------------------------
(* Achievements (app.js:1225-1258) *)

achievementsList ==
    <<"first-book", "five-books", "first-complete", "five-complete",
      "streak-7", "streak-30">>

CompletedCount(bs) == Cardinality({i \in 1..Len(bs) : bs[i].completed})

(* achievement.check() *)
AchievementCheck(id, s) ==
    CASE id = "first-book" -> Len(s.books) >= 1
      [] id = "five-books" -> Len(s.books) >= FiveBooks
      [] id = "first-complete" -> \E i \in 1..Len(s.books) : s.books[i].completed
      [] id = "five-complete" -> CompletedCount(s.books) >= FiveBooks
      [] id = "streak-7" -> s.currentStreak >= StreakWeek
      [] id = "streak-30" -> s.currentStreak >= StreakMonth
      [] OTHER -> FALSE

(* achievements.find(a => a.id === id): the index of the first, 0 if none *)
FindAchievement(achs, id) ==
    IF \E i \in 1..Len(achs) : achs[i].id = id
    THEN CHOOSE i \in 1..Len(achs) :
            /\ achs[i].id = id
            /\ \A j \in 1..(i - 1) : achs[j].id # id
    ELSE 0

(* The forEach of checkAchievements from catalog entry k on; updated is    *)
(* the flag as it stands.                                                  *)
RECURSIVE CheckFrom(_, _, _)
CheckFrom(s, k, updated) ==
    IF k > Len(achievementsList)
    THEN IF updated THEN saveAchievements(s) ELSE s
    ELSE LET id == achievementsList[k]
             u == FindAchievement(s.achievements, id)
         IN  IF u # 0 /\ ~s.achievements[u].unlocked /\ AchievementCheck(id, s)
             THEN CheckFrom(
                      addActivity([s EXCEPT !.achievements[u].unlocked = TRUE],
                                  "Achievement", "Unlocked: " \o id, ""),
                      k + 1, TRUE)
             ELSE CheckFrom(s, k + 1, updated)

(* checkAchievements setting unlocked to what check() returns, instead of  *)
(* only ever setting it to true                                            *)
checkAchievementsRecomputed(s) ==
    saveAchievements(
        [s EXCEPT !.achievements =
            [u \in 1..Len(s.achievements) |->
                [s.achievements[u] EXCEPT
                    !.unlocked = AchievementCheck(s.achievements[u].id, s)]]])

checkAchievements(s) == CheckFrom(s, 1, FALSE)

(* achievementsList.map(a => ({ id: a.id, unlocked: false })) *)
LockedAchievements ==
    [k \in 1..Len(achievementsList) |->
        [id |-> achievementsList[k], unlocked |-> FALSE]]

----------------------------------------------------------------------------
(* Form input *)

(* A number field of a form: blank (or not a number), or an integer *)
Blank == [blank |-> TRUE, val |-> 0]

Num(v) == [blank |-> FALSE, val |-> v]

(* parseInt(value) || 0 *)
ParseIntOr0(field) == IF field.blank THEN 0 ELSE field.val

(* value.trim(), on the text inputs the model enters *)
Trim(text) == IF text = " " THEN "" ELSE text

(* The total of handleAddBook and handleEditBook, the amount of            *)
(* handleAddLog: pages, or hours * 60 + minutes (app.js:285-292, 332-339,  *)
(* 1351-1357).                                                             *)
FormAmount(type, form) ==
    IF type = "paper"
    THEN ParseIntOr0(form.pages)
    ELSE ParseIntOr0(form.hours) * 60 + ParseIntOr0(form.minutes)

----------------------------------------------------------------------------
(* The handlers, as functions of the store *)

(* handleAddBook rejecting a total below 0 only, not a total of 0 *)
handleAddBookZeroTotal(s, form, clock) ==
    LET name == Trim(form.name)
        author == Trim(form.author)
        total == FormAmount(form.type, form)
        book == Book(clock, name, author, form.type, total, form.category,
                     Trim(form.coverUrl))
    IN  IF name = "" \/ author = "" \/ total < 0
        THEN s
        ELSE checkAchievements(
                 addActivity(saveBooks([s EXCEPT !.books = Append(@, book)]),
                             "Add", "Added book \"" \o name \o "\"", name))

(* handleAddBook (app.js:276-320); clock is what Date.now() returns *)
handleAddBook(s, form, clock) ==
    LET name == Trim(form.name)
        author == Trim(form.author)
        total == FormAmount(form.type, form)
        book == Book(clock, name, author, form.type, total, form.category,
                     Trim(form.coverUrl))
    IN  IF name = "" \/ author = "" \/ total <= 0
        THEN s
        ELSE checkAchievements(
                 addActivity(saveBooks([s EXCEPT !.books = Append(@, book)]),
                             "Add", "Added book \"" \o name \o "\"", name))

(* handleAddLog with the new entry taking the place of the entries of the *)
(* same date                                                               *)
handleAddLogOverwriting(s, bookId, date, form) ==
    LET i == FindBook(s.books, bookId)
        book == s.books[i]
        amount == FormAmount(book.type, form)
        otherDays == SelectSeq(book.logs, LAMBDA log : log.date # date)
        logged == updateStatus(
                      [book EXCEPT !.logs =
                          SortLogs(Append(otherDays,
                                          [date |-> date, amount |-> amount]))])
        unit == IF book.type = "paper" THEN "pages" ELSE "minutes"
    IN  IF i = 0 THEN s
        ELSE IF amount <= 0 THEN s
        ELSE checkAchievements(
                 addActivity(
                     saveStreaks(updateStreaks(
                         saveBooks([s EXCEPT !.books[i] = logged]))),
                     "Progress",
                     ToString(amount) \o " " \o unit \o " for \"" \o book.name \o "\"",
                     book.name))

(* handleAddLog (app.js:323-364) *)
handleAddLog(s, bookId, date, form) ==
    LET i == FindBook(s.books, bookId)
        book == s.books[i]
        amount == FormAmount(book.type, form)
        logged == updateStatus(
                      [book EXCEPT !.logs =
                          SortLogs(Append(@, [date |-> date, amount |-> amount]))])
        unit == IF book.type = "paper" THEN "pages" ELSE "minutes"
    IN  IF i = 0 THEN s
        ELSE IF amount <= 0 THEN s
        ELSE checkAchievements(
                 addActivity(
                     saveStreaks(updateStreaks(
                         saveBooks([s EXCEPT !.books[i] = logged]))),
                     "Progress",
                     ToString(amount) \o " " \o unit \o " for \"" \o book.name \o "\"",
                     book.name))

(* changeBookCategory (app.js:446-457) *)
changeBookCategory(s, bookId, newCategory) ==
    LET i == FindBook(s.books, bookId)
    IN  IF i = 0 THEN s
        ELSE saveBooks([s EXCEPT !.books[i].category = newCategory])

(* toggleBookCompletion marking the book without logging what remains *)
toggleBookCompletionUnfilled(s, bookId) ==
    LET i == FindBook(s.books, bookId)
        book == s.books[i]
        noted == IF ~book.completed
                 THEN addActivity(s, "Complete",
                                  "Completed book \"" \o book.name \o "\"",
                                  book.name)
                 ELSE s
        toggled == updateStatus([book EXCEPT !.completed = ~book.completed])
    IN  IF i = 0 THEN s
        ELSE checkAchievements(
                 saveStreaks(updateStreaks(
                     saveBooks([noted EXCEPT !.books[i] = toggled]))))

(* toggleBookCompletion taking its newest log back when the mark is removed *)
toggleBookCompletionUndone(s, bookId) ==
    LET i == FindBook(s.books, bookId)
        book == s.books[i]
        remaining == getRemainingAmount(book)
        filled == IF ~book.completed /\ remaining > 0
                  THEN [book EXCEPT !.logs =
                           SortLogs(Append(@, [date |-> IsoToday,
                                               amount |-> remaining]))]
                  ELSE IF book.completed /\ book.logs # <<>>
                       THEN [book EXCEPT !.logs = Tail(@)]
                       ELSE book
        noted == IF ~book.completed
                 THEN addActivity(s, "Complete",
                                  "Completed book \"" \o book.name \o "\"",
                                  book.name)
                 ELSE s
        toggled == updateStatus([filled EXCEPT !.completed = ~book.completed])
    IN  IF i = 0 THEN s
        ELSE checkAchievements(
                 saveStreaks(updateStreaks(
                     saveBooks([noted EXCEPT !.books[i] = toggled]))))

(* toggleBookCompletion (app.js:460-485) *)
toggleBookCompletion(s, bookId) ==
    LET i == FindBook(s.books, bookId)
        book == s.books[i]
        remaining == getRemainingAmount(book)
        filled == IF ~book.completed /\ remaining > 0
                  THEN [book EXCEPT !.logs =
                           SortLogs(Append(@, [date |-> IsoToday,
                                               amount |-> remaining]))]
                  ELSE book
        noted == IF ~book.completed
                 THEN addActivity(s, "Complete",
                                  "Completed book \"" \o book.name \o "\"",
                                  book.name)
                 ELSE s
        toggled == updateStatus([filled EXCEPT !.completed = ~book.completed])
    IN  IF i = 0 THEN s
        ELSE checkAchievements(
                 saveStreaks(updateStreaks(
                     saveBooks([noted EXCEPT !.books[i] = toggled]))))

(* deleteBook removing the first book of the list, whatever its id *)
deleteBookFirst(s, bookId, confirmed) ==
    LET i == FindBook(s.books, bookId)
        book == s.books[i]
        noted == addActivity(s, "Delete",
                             "Deleted book \"" \o book.name \o "\"", book.name)
    IN  IF ~confirmed THEN s
        ELSE IF i = 0 THEN s
        ELSE saveBooks([noted EXCEPT !.books = Tail(@)])

(* deleteBook (app.js:488-497).  With an id that is not in the store,      *)
(* book is undefined and book.name throws a TypeError once the dialog is   *)
(* confirmed: the handler ends there.                                      *)
deleteBook(s, bookId, confirmed) ==
    LET i == FindBook(s.books, bookId)
        book == s.books[i]
        noted == addActivity(s, "Delete",
                             "Deleted book \"" \o book.name \o "\"", book.name)
    IN  IF ~confirmed THEN s
        ELSE IF i = 0 THEN s
        ELSE saveBooks([noted EXCEPT !.books = RemoveBook(@, bookId)])

(* handleEditBook building the edited book anew, so without its logs *)
handleEditBookRebuilt(s, bookId, form) ==
    LET i == FindBook(s.books, bookId)
        book == s.books[i]
        edited == updateStatus(
                      Book(book.id, Trim(form.name), Trim(form.author),
                           form.type, FormAmount(form.type, form),
                           form.category, Trim(form.coverUrl)))
    IN  IF i = 0 THEN s
        ELSE addActivity(saveBooks([s EXCEPT !.books[i] = edited]),
                         "Edit", "Edited book \"" \o edited.name \o "\"",
                         edited.name)

(* handleEditBook (app.js:1338-1366) *)
handleEditBook(s, bookId, form) ==
    LET i == FindBook(s.books, bookId)
        book == s.books[i]
        edited == updateStatus(
                      [book EXCEPT !.name = Trim(form.name),
                                   !.author = Trim(form.author),
                                   !.category = form.category,
                                   !.type = form.type,
                                   !.coverUrl = Trim(form.coverUrl),
                                   !.total = FormAmount(form.type, form)])
    IN  IF i = 0 THEN s
        ELSE addActivity(saveBooks([s EXCEPT !.books[i] = edited]),
                         "Edit", "Edited book \"" \o edited.name \o "\"",
                         edited.name)

----------------------------------------------------------------------------
(* Export and import (app.js:1385-1479) *)

(* The document exportData serialises (exportDate is never read back) *)
ExportDocument(s) ==
    [books |-> <<s.books>>,
     streaks |-> <<[currentStreak |-> s.currentStreak,
                    longestStreak |-> s.longestStreak]>>,
     activityFeed |-> <<s.activityFeed>>,
     achievements |-> <<s.achievements>>,
     dailyGoal |-> <<s.dailyGoal>>]

(* exportData (app.js:1385-1404) *)
exportData(s) == addActivity(s, "Export", "Data exported", "")

(* The callback of data.books.map (app.js:1418-1432).  A field the         *)
(* document lacks reads as "" (a text), <<>> (logs) or FALSE (completed).  *)
(* The callback without book.status = bookData.status || 'planned': the    *)
(* constructor's status stays                                              *)
ImportBookStatusLost(bookData) ==
    [Book(bookData.id, bookData.name, bookData.author, bookData.type,
          bookData.total,
          IF bookData.category = "" THEN "mama" ELSE bookData.category,
          bookData.coverUrl)
     EXCEPT !.logs = bookData.logs,
            !.completed = bookData.completed]

ImportBook(bookData) ==
    [Book(bookData.id, bookData.name, bookData.author, bookData.type,
          bookData.total,
          IF bookData.category = "" THEN "mama" ELSE bookData.category,
          bookData.coverUrl)
     EXCEPT !.logs = bookData.logs,
            !.completed = bookData.completed,
            !.status = IF bookData.status = "" THEN "planned"
                       ELSE bookData.status]

(* Array.isArray(v), of a parsed JSON value that is an array or an object *)
IsArray(v) == DOMAIN v = 1..Cardinality(DOMAIN v)

(* importData adding the document's books to the books in the store *)
importDataMerging(s, data, confirmed) ==
    LET s1 == IF data.books # <<>>
              THEN saveBooks([s EXCEPT !.books =
                      @ \o [k \in 1..Len(data.books[1]) |->
                               ImportBook(data.books[1][k])]])
              ELSE s
        s2 == IF data.streaks # <<>>
              THEN saveStreaks(
                       [s1 EXCEPT !.currentStreak = data.streaks[1].currentStreak,
                                  !.longestStreak = data.streaks[1].longestStreak])
              ELSE s1
        s3 == IF data.activityFeed # <<>>
              THEN saveActivityFeed([s2 EXCEPT !.activityFeed = data.activityFeed[1]])
              ELSE s2
        s4 == IF data.achievements # <<>>
              THEN saveAchievements([s3 EXCEPT !.achievements = data.achievements[1]])
              ELSE s3
        s5 == IF data.dailyGoal # <<>> /\ data.dailyGoal[1] # 0
              THEN [s4 EXCEPT !.dailyGoal = data.dailyGoal[1]]
              ELSE s4
    IN  IF ~confirmed THEN s
        ELSE IF data.books # <<>> /\ ~IsArray(data.books[1]) THEN s
        ELSE IF ~IsArray(s5.activityFeed) THEN s5
        ELSE addActivity(s5, "Import", "Data imported", "")

(* importData's reader.onload, JSON.parse done (app.js:1413-1470).         *)
(* data.books.map throws when data.books is not an array, before anything  *)
(* is assigned; the feed is assigned and saved whatever it is, and when it *)
(* is not an array addActivity's unshift throws at the latest (or          *)
(* renderActivityFeed's map before it): the catch block reports the error  *)
(* and the handler ends without the "Import" event.                        *)
importData(s, data, confirmed) ==
    LET s1 == IF data.books # <<>>
              THEN saveBooks([s EXCEPT !.books =
                      [k \in 1..Len(data.books[1]) |->
                          ImportBook(data.books[1][k])]])
              ELSE s
        s2 == IF data.streaks # <<>>
              THEN saveStreaks(
                       [s1 EXCEPT !.currentStreak = data.streaks[1].currentStreak,
                                  !.longestStreak = data.streaks[1].longestStreak])
              ELSE s1
        s3 == IF data.activityFeed # <<>>
              THEN saveActivityFeed([s2 EXCEPT !.activityFeed = data.activityFeed[1]])
              ELSE s2
        s4 == IF data.achievements # <<>>
              THEN saveAchievements([s3 EXCEPT !.achievements = data.achievements[1]])
              ELSE s3
        s5 == IF data.dailyGoal # <<>> /\ data.dailyGoal[1] # 0
              THEN [s4 EXCEPT !.dailyGoal = data.dailyGoal[1]]
              ELSE s4
    IN  IF ~confirmed THEN s
        ELSE IF data.books # <<>> /\ ~IsArray(data.books[1]) THEN s
        ELSE IF ~IsArray(s5.activityFeed) THEN s5
        ELSE addActivity(s5, "Import", "Data imported", "")

----------------------------------------------------------------------------
(* Page load (app.js:80-98) *)

(* The callback of parsed.map in loadBooks (app.js:841-848) *)
LoadBook(data) ==
    updateStatus(
        [Book(data.id, data.name, data.author, data.type, data.total,
              IF data.category = "" THEN "mama" ELSE data.category,
              data.coverUrl)
         EXCEPT !.logs = data.logs,
                !.completed = data.completed,
                !.status = IF data.status = ""
                           THEN (IF data.completed THEN "completed" ELSE "planned")
                           ELSE data.status])

(* loadBooks (app.js:837-850) *)
loadBooks(s) ==
    IF s.storage.books # <<>>
    THEN [s EXCEPT !.books =
             [k \in 1..Len(s.storage.books[1]) |-> LoadBook(s.storage.books[1][k])]]
    ELSE s

(* loadStreaks (app.js:808-815) *)
loadStreaks(s) ==
    IF s.storage.streaks # <<>>
    THEN [s EXCEPT !.currentStreak = s.storage.streaks[1].currentStreak,
                   !.longestStreak = s.storage.streaks[1].longestStreak]
    ELSE s

(* loadActivityFeed (app.js:1214-1219) *)
loadActivityFeed(s) ==
    IF s.storage.activityFeed # <<>>
    THEN [s EXCEPT !.activityFeed = s.storage.activityFeed[1]]
    ELSE s

(* loadAchievements (app.js:1281-1286) *)
loadAchievements(s) ==
    IF s.storage.achievements # <<>>
    THEN [s EXCEPT !.achievements = s.storage.achievements[1]]
    ELSE s

(* initializeAchievements (app.js:1234-1242) *)
initializeAchievements(s) ==
    checkAchievements(
        IF s.storage.achievements # <<>>
        THEN [s EXCEPT !.achievements = s.storage.achievements[1]]
        ELSE [s EXCEPT !.achievements = LockedAchievements])

(* The script's globals as declared (app.js:51-56), over the localStorage  *)
(* the page finds.                                                         *)
FreshGlobals(stored) ==
    [books |-> <<>>, currentStreak |-> 0, longestStreak |-> 0,
     activityFeed |-> <<>>, achievements |-> <<>>,
     dailyGoal |-> DefaultDailyGoal, storage |-> stored, written |-> {}]

(* The DOMContentLoaded handler (app.js:80-98) *)
DOMContentLoaded(stored) ==
    initializeAchievements(
        updateStreaks(
            loadAchievements(
                loadActivityFeed(
                    loadStreaks(
                        loadBooks(FreshGlobals(stored)))))))

----------------------------------------------------------------------------
(* What the user enters *)

Form(name, author, type, category, pages, hours, minutes) ==
    [name |-> name, author |-> author, type |-> type, category |-> category,
     coverUrl |-> "", pages |-> pages, hours |-> hours, minutes |-> minutes]

(* The add-book form: one good paper book, one good audio book, and the   *)
(* ways of getting it wrong.                                               *)
AddBookForms ==
    {Form("Dune", "Herbert", "paper", "mama", Num(2), Blank, Blank),
     Form("Emma", "Austen", "audio", "mama", Blank, Num(1), Num(0)),
     Form(" ", "Herbert", "paper", "mama", Num(2), Blank, Blank),
     Form("Dune", "", "paper", "mama", Num(2), Blank, Blank),
     Form("Dune", "Herbert", "paper", "mama", Blank, Blank, Blank),
     Form("Dune", "Herbert", "audio", "mama", Blank, Num(0), Num(-1))}

(* The edit form: a new title with a larger total; a cleared name with    *)
(* the other medium and its fields left blank.                             *)
EditForms ==
    {Form("Dune II", "Herbert", "paper", "choice", Num(4), Blank, Blank),
     Form(" ", "Herbert", "audio", "mama", Blank, Blank, Blank)}

(* The log form, of which the handler reads the fields of the book's      *)
(* medium: 1 page or 1 h 30 min; 0 pages or -1 min.                        *)
LogForms ==
    {Form("", "", "", "", Num(1), Num(1), Num(30)),
     Form("", "", "", "", Num(0), Blank, Num(-1))}

PagesForm(pages) == Form("", "", "", "", Num(pages), Blank, Blank)

Categories == {"mama", "choice"}

Dates == 1..MaxDay

(* Book ids a handler can be called with: those of the books on the page, *)
(* and 0, which is never the id of a book.                                 *)
BookIds == {0} \cup {books[i].id : i \in 1..Len(books)}

(* A backup taken from a fresh installation *)
FreshDocument == ExportDocument(DOMContentLoaded(NoStorage))

(* A hand-made document: one finished book, no status, no category, no    *)
(* completed flag, and no other key.                                       *)
BareDocument ==
    [books |-> << <<[id |-> 1, name |-> "Emma", author |-> "Austen",
                     type |-> "paper", total |-> 2, category |-> "",
                     coverUrl |-> "",
                     logs |-> <<[date |-> 1, amount |-> 2]>>,
                     status |-> "", completed |-> FALSE]>> >>,
     streaks |-> <<>>, activityFeed |-> <<>>, achievements |-> <<>>,
     dailyGoal |-> <<>>]

(* The documents the user can pick: the backups made, and the two above *)
Documents == Range(exportFiles) \cup {FreshDocument, BareDocument}

(* A JSON object where an array is expected: {"0": "x"} *)
NotAList == [k \in {0} |-> "x"]

(* Documents of the wrong shape: books that are no array; good books with *)
(* an activity feed that is no array.                                     *)
MalformedDocuments ==
    {[BareDocument EXCEPT !.books = <<NotAList>>],
     [BareDocument EXCEPT !.activityFeed = <<NotAList>>]}

(* A hand-made document: one book read to its end on two days, the logs   *)
(* written down oldest first, and no other key.                            *)
OldestFirstDocument ==
    [BareDocument EXCEPT !.books =
        << <<[id |-> 1, name |-> "Emma", author |-> "Austen",
              type |-> "paper", total |-> 2, category |-> "",
              coverUrl |-> "",
              logs |-> <<[date |-> 1, amount |-> 1],
                         [date |-> 2, amount |-> 1]>>,
              status |-> "", completed |-> FALSE]>> >>]

(* A hand-made document with the streaks and no other key *)
StreaksDocument ==
    [books |-> <<>>,
     streaks |-> <<[currentStreak |-> 5, longestStreak |-> 9]>>,
     activityFeed |-> <<>>, achievements |-> <<>>, dailyGoal |-> <<>>]

----------------------------------------------------------------------------
(* Actions: one per event *)

(* The handler has run to completion and left the store s *)
Commit(s, op) ==
    /\ books' = s.books
    /\ currentStreak' = s.currentStreak
    /\ longestStreak' = s.longestStreak
    /\ activityFeed' = s.activityFeed
    /\ achievements' = s.achievements
    /\ dailyGoal' = s.dailyGoal
    /\ storage' = s.storage
    /\ written' = s.written
    /\ lastCall' = op
    /\ UNCHANGED <<utcDay, tzOffset, localShift>>

(* elapsed: the milliseconds since the clock was last read *)
AddBookSubmit(form, elapsed) ==
    /\ Commit(handleAddBook(Store, form, now + elapsed),
              "handleAddBook")
    /\ now' = now + elapsed
    /\ UNCHANGED exportFiles

LogSubmit(bookId, date, form) ==
    /\ Commit(handleAddLog(Store, bookId, date, form),
              "handleAddLog")
    /\ UNCHANGED <<exportFiles, now>>

SaveCategoryClick(bookId, newCategory) ==
    /\ Commit(changeBookCategory(Store, bookId, newCategory),
              "changeBookCategory")
    /\ UNCHANGED <<exportFiles, now>>

ToggleClick(bookId) ==
    /\ Commit(toggleBookCompletion(Store, bookId),
              "toggleBookCompletion")
    /\ UNCHANGED <<exportFiles, now>>

DeleteClick(bookId, confirmed) ==
    /\ Commit(deleteBook(Store, bookId, confirmed),
              "deleteBook")
    /\ UNCHANGED <<exportFiles, now>>

EditSubmit(bookId, form) ==
    /\ Commit(handleEditBook(Store, bookId, form),
              "handleEditBook")
    /\ UNCHANGED <<exportFiles, now>>

ExportClick ==
    /\ Commit(exportData(Store), "exportData")
    /\ exportFiles' = Append(exportFiles, ExportDocument(Store))
    /\ UNCHANGED now

ImportFile(data, confirmed) ==
    /\ Commit(importData(Store, data, confirmed),
              "importData")
    /\ UNCHANGED <<exportFiles, now>>

PageLoad ==
    /\ Commit(DOMContentLoaded(storage),
              "DOMContentLoaded")
    /\ UNCHANGED <<exportFiles, now>>

(* The local calendar day minus the UTC day, by timezone and time of day *)
LocalShifts == IF tzOffset = 0 THEN {0}
               ELSE IF tzOffset < 0 THEN {-1, 0} ELSE {0, 1}

(* Midnight UTC passes, or the local calendar day changes *)
TimePasses(midnight) ==
    /\ utcDay' = IF midnight THEN utcDay + 1 ELSE utcDay
    /\ utcDay' <= MaxDay
    /\ localShift' \in LocalShifts
    /\ <<utcDay', localShift'>> # <<utcDay, localShift>>
    /\ lastCall' = "clock"
    /\ written' = {}
    /\ UNCHANGED <<books, currentStreak, longestStreak, activityFeed,
                   achievements, dailyGoal, storage, exportFiles, now,
                   tzOffset>>

----------------------------------------------------------------------------
(* The specification: any sequence of everyday events from a first visit, *)
(* within one calendar day.                                               *)

(* Bounds of the exploration *)
(* The step leaves a feed of at most MaxEvents events, the unlocking of    *)
(* achievements not counted                                               *)
RoomInFeed ==
    Cardinality({k \in 1..Len(activityFeed') :
                    activityFeed'[k].type # "Achievement"}) <= MaxEvents

RoomForLog(bookId, extra) ==
    LET i == FindBook(books, bookId)
    IN  IF i = 0 THEN TRUE ELSE Len(books[i].logs) < MaxLogs + extra

Init ==
    LET s == DOMContentLoaded(NoStorage)
    IN  /\ books = s.books
        /\ currentStreak = s.currentStreak
        /\ longestStreak = s.longestStreak
        /\ activityFeed = s.activityFeed
        /\ achievements = s.achievements
        /\ dailyGoal = s.dailyGoal
        /\ storage = s.storage
        /\ written = s.written
        /\ lastCall = "DOMContentLoaded"
        /\ exportFiles = <<>>
        /\ now = 1
        /\ utcDay = 2
        /\ tzOffset = 0
        /\ localShift = 0

Next ==
    \/ \E form \in AddBookForms, elapsed \in {0, 1} :
          /\ Len(books) < MaxBooks /\ now + elapsed <= MaxNow
          /\ AddBookSubmit(form, elapsed) /\ RoomInFeed
    \/ \E bookId \in BookIds, date \in Dates, form \in LogForms :
          RoomForLog(bookId, 0) /\ LogSubmit(bookId, date, form) /\ RoomInFeed
    \/ \E bookId \in BookIds, newCategory \in Categories :
          SaveCategoryClick(bookId, newCategory)
    \/ \E bookId \in BookIds :
          RoomForLog(bookId, 1) /\ ToggleClick(bookId) /\ RoomInFeed
    \/ \E bookId \in BookIds, confirmed \in BOOLEAN :
          DeleteClick(bookId, confirmed) /\ RoomInFeed
    \/ \E bookId \in BookIds, form \in EditForms :
          EditSubmit(bookId, form) /\ RoomInFeed
    \/ PageLoad

Spec == Init /\ [][Next]_vars

(* The same with backups taken and restored, over the steps that change   *)
(* the store and leave a feed of at most MaxBackupEvents events in all.   *)
StoreChanges ==
    <<books, currentStreak, longestStreak, activityFeed, achievements>>'
        # <<books, currentStreak, longestStreak, activityFeed, achievements>>

RoomInBackup == Len(activityFeed') <= MaxBackupEvents

NextBackup ==
    \/ Next /\ StoreChanges /\ RoomInBackup
    \/ Len(exportFiles) < MaxExports /\ ExportClick /\ RoomInBackup
    \/ \E data \in Documents, confirmed \in BOOLEAN :
          ImportFile(data, confirmed) /\ RoomInBackup

SpecBackup == Init /\ [][NextBackup]_vars

(* A backup whose activity feed has one event more than addActivity keeps *)
LongDocument ==
    [BareDocument EXCEPT !.activityFeed =
        <<[k \in 1..(FeedCap + 1) |->
              [type |-> "Add", message |-> "Added book", bookName |-> ""]]>>]

(* The same with hand-made documents imported as well: a long one, and    *)
(* documents of the wrong shape, up to the first import that leaves a     *)
(* feed that is no array: every later addActivity throws on it.  The      *)
(* document with the logs oldest first is imported into a fresh store.     *)
NextImport ==
    \/ IsArray(activityFeed) /\ NextBackup
    \/ \E data \in MalformedDocuments :
          IsArray(activityFeed) /\ ImportFile(data, TRUE)
    \/ IsArray(activityFeed) /\ ImportFile(LongDocument, TRUE)
    \/ /\ IsArray(activityFeed)
       /\ ImportFile(StreaksDocument, TRUE) /\ RoomInBackup
    \/ activityFeed = <<>> /\ ImportFile(OldestFirstDocument, TRUE)

SpecImport == Init /\ [][NextImport]_vars

(* The same, with the calendar moving on *)
NextDays == Next \/ \E midnight \in BOOLEAN : TimePasses(midnight)

SpecDays == Init /\ [][NextDays]_vars

----------------------------------------------------------------------------
(* The first revision of the program (src/unnamed/part_000): books, logs   *)
(* and streaks only, no status, category, feed or achievements.  Its       *)
(* updateStreaks, saveBooks, saveStreaks and loadStreaks read as above.    *)

BookBasic(id, name, author, type, total) ==
    [id |-> id, name |-> name, author |-> author, type |-> type,
     total |-> total, logs |-> <<>>, completed |-> FALSE]

handleAddBookBasic(s, form, clock) ==
    LET name == Trim(form.name)
        author == Trim(form.author)
        total == FormAmount(form.type, form)
        book == BookBasic(clock, name, author, form.type, total)
    IN  IF name = "" \/ author = "" \/ total <= 0
        THEN s
        ELSE saveBooks([s EXCEPT !.books = Append(@, book)])

handleAddLogBasic(s, bookId, date, form) ==
    LET i == FindBook(s.books, bookId)
        book == s.books[i]
        amount == FormAmount(book.type, form)
        logged == [book EXCEPT !.logs =
                      SortLogs(Append(@, [date |-> date, amount |-> amount]))]
    IN  IF i = 0 THEN s
        ELSE IF amount <= 0 THEN s
        ELSE saveStreaks(updateStreaks(saveBooks([s EXCEPT !.books[i] = logged])))

toggleBookCompletionBasic(s, bookId) ==
    LET i == FindBook(s.books, bookId)
    IN  IF i = 0 THEN s
        ELSE saveBooks([s EXCEPT !.books[i].completed = ~@])

(* deleteBook of part_000: filter, then saveBooks, whatever the id *)
deleteBookBasic(s, bookId, confirmed) ==
    IF confirmed
    THEN saveBooks([s EXCEPT !.books = RemoveBook(@, bookId)])
    ELSE s

LoadBookBasic(data) ==
    [BookBasic(data.id, data.name, data.author, data.type, data.total)
     EXCEPT !.logs = data.logs, !.completed = data.completed]

loadBooksBasic(s) ==
    IF s.storage.books # <<>>
    THEN [s EXCEPT !.books =
             [k \in 1..Len(s.storage.books[1]) |->
                 LoadBookBasic(s.storage.books[1][k])]]
    ELSE s

(* The globals of part_000; the feed, the achievements and the daily goal  *)
(* are not part of this revision and stay empty.                           *)
GlobalsBasic(stored) ==
    [books |-> <<>>, currentStreak |-> 0, longestStreak |-> 0,
     activityFeed |-> <<>>, achievements |-> <<>>, dailyGoal |-> 0,
     storage |-> stored, written |-> {}]

DOMContentLoadedBasic(stored) ==
    updateStreaks(loadStreaks(loadBooksBasic(GlobalsBasic(stored))))

AddBookSubmitBasic(form, elapsed) ==
    /\ Commit(handleAddBookBasic(Store, form, now + elapsed), "handleAddBook")
    /\ now' = now + elapsed
    /\ UNCHANGED exportFiles

LogSubmitBasic(bookId, date, form) ==
    /\ Commit(handleAddLogBasic(Store, bookId, date, form), "handleAddLog")
    /\ UNCHANGED <<exportFiles, now>>

ToggleClickBasic(bookId) ==
    /\ Commit(toggleBookCompletionBasic(Store, bookId), "toggleBookCompletion")
    /\ UNCHANGED <<exportFiles, now>>

DeleteClickBasic(bookId, confirmed) ==
    /\ Commit(deleteBookBasic(Store, bookId, confirmed), "deleteBook")
    /\ UNCHANGED <<exportFiles, now>>

PageLoadBasic ==
    /\ Commit(DOMContentLoadedBasic(storage), "DOMContentLoaded")
    /\ UNCHANGED <<exportFiles, now>>

InitBasic ==
    LET s == DOMContentLoadedBasic(NoStorage)
    IN  /\ books = s.books
        /\ currentStreak = s.currentStreak
        /\ longestStreak = s.longestStreak
        /\ activityFeed = s.activityFeed
        /\ achievements = s.achievements
        /\ dailyGoal = s.dailyGoal
        /\ storage = s.storage
        /\ exportFiles = <<>>
        /\ now = 1
        /\ utcDay = 2
        /\ tzOffset = 0
        /\ localShift = 0
        /\ lastCall = "DOMContentLoaded"
        /\ written = {}

NextBasic ==
    \/ \E form \in AddBookForms, elapsed \in {0, 1} :
          /\ Len(books) < MaxBooks /\ now + elapsed <= MaxNow
          /\ AddBookSubmitBasic(form, elapsed)
    \/ \E bookId \in BookIds, date \in Dates, form \in LogForms :
          RoomForLog(bookId, 0) /\ LogSubmitBasic(bookId, date, form)
    \/ \E bookId \in BookIds : ToggleClickBasic(bookId)
    \/ \E bookId \in BookIds, confirmed \in BOOLEAN :
          DeleteClickBasic(bookId, confirmed)
    \/ PageLoadBasic

SpecBasic == InitBasic /\ [][NextBasic]_vars

----------------------------------------------------------------------------
(* The progress functions on one paper book of any total up to MaxTotal,   *)
(* with one logged amount of up to its total plus one, completion toggled  *)
(* or not.                                                                 *)

InitProgress ==
    \E total \in 1..MaxTotal :
        LET s == handleAddBook(DOMContentLoaded(NoStorage),
                               Form("Dune", "Herbert", "paper", "mama",
                                    Num(total), Blank, Blank), 1)
        IN  /\ books = s.books
            /\ currentStreak = s.currentStreak
            /\ longestStreak = s.longestStreak
            /\ activityFeed = s.activityFeed
            /\ achievements = s.achievements
            /\ dailyGoal = s.dailyGoal
            /\ storage = s.storage
            /\ written = s.written
            /\ lastCall = "handleAddBook"
            /\ exportFiles = <<>>
            /\ now = 1
            /\ utcDay = 2
            /\ tzOffset = 0
            /\ localShift = 0

NextProgress ==
    \/ \E amount \in 1..(MaxTotal + 1) :
          /\ books[1].logs = <<>>
          /\ amount <= books[1].total + 1
          /\ LogSubmit(books[1].id, utcDay, PagesForm(amount))
    \/ Len(books[1].logs) <= 1 /\ ToggleClick(books[1].id)

SpecProgress == InitProgress /\ [][NextProgress]_vars

-----------------------------------------------------------------------------
(* Streaks: two books, logs on any day of the calendar, in a browser in    *)
(* any timezone (west of, at, or east of UTC) on any day, at a time of day *)
(* when the local calendar day is or is not the UTC day.                   *)

Timezones == {-1, 0, 1}

InitStreaks ==
    /\ utcDay \in Dates
    /\ tzOffset \in Timezones
    /\ localShift \in LocalShifts
    /\ LET s1 == handleAddBook(DOMContentLoaded(NoStorage),
                                Form("Dune", "Herbert", "paper", "mama",
                                     Num(MaxTotal), Blank, Blank), 1)
           s == handleAddBook(s1,
                               Form("Emma", "Austen", "paper", "choice",
                                    Num(MaxTotal), Blank, Blank), 2)
       IN  /\ books = s.books
           /\ currentStreak = s.currentStreak
           /\ longestStreak = s.longestStreak
           /\ activityFeed = s.activityFeed
           /\ achievements = s.achievements
           /\ dailyGoal = s.dailyGoal
           /\ storage = s.storage
           /\ written = s.written
           /\ lastCall = "handleAddBook"
           /\ exportFiles = <<>>
           /\ now = 2

NextStreaks ==
    \/ \E bookId \in BookIds \ {0}, date \in Dates :
          /\ RoomForLog(bookId, 0)
          /\ LogSubmit(bookId, date, PagesForm(1))
    \/ \E bookId \in BookIds \ {0} : DeleteClick(bookId, TRUE)
    \/ PageLoad

SpecStreaks == InitStreaks /\ [][NextStreaks]_vars

----------------------------------------------------------------------------
(* Properties *)

(* C1, as stated: for every book with target > 0 the percentage is an      *)
(* integer in 0..100, and it is 100 exactly when totalProgress >= target.  *)
C1_HundredIffComplete ==
    \A i \in 1..Len(books) :
        books[i].total > 0 =>
            /\ getProgressPercentage(books[i]) \in 0..100
            /\ getProgressPercentage(books[i]) = 100
                   <=> getTotalProgress(books[i]) >= books[i].total

(* C1, amended: for every book with target > 0 the percentage is an        *)
(* integer in 0..100, and it is 100 exactly when 100 * totalProgress /     *)
(* target rounds to 100 or more, that is when 200 * totalProgress >=       *)
(* 199 * target; so it is 100 whenever totalProgress >= target, and also   *)
(* just below the target (199 of 200).                                     *)
C1_HundredIffRoundsToHundred ==
    \A i \in 1..Len(books) :
        books[i].total > 0 =>
            /\ getProgressPercentage(books[i]) \in 0..100
            /\ getProgressPercentage(books[i]) = 100
                   <=> 200 * getTotalProgress(books[i]) >= 199 * books[i].total
            /\ getTotalProgress(books[i]) >= books[i].total
                   => getProgressPercentage(books[i]) = 100

(* C1, witness: a book short of its target has been logged to 100 percent *)
C1_Witness ==
    \E i \in 1..Len(books) :
        /\ books[i].total > 0
        /\ lastCall = "handleAddLog"
        /\ getTotalProgress(books[i]) < books[i].total
        /\ getProgressPercentage(books[i]) = 100

(* C8: for every book the remaining amount is target - totalProgress when  *)
(* that is positive and 0 otherwise; it is never negative, also when the   *)
(* logged progress exceeds the target.                                     *)
C8_RemainingClamped ==
    \A i \in 1..Len(books) :
        LET remaining == getRemainingAmount(books[i])
            progress == getTotalProgress(books[i])
        IN  /\ remaining >= 0
            /\ progress >= books[i].total => remaining = 0
            /\ progress < books[i].total => remaining + progress = books[i].total

(* C8, witness: a book has been logged past its target *)
C8_Witness ==
    \E i \in 1..Len(books) :
        /\ lastCall = "handleAddLog"
        /\ getTotalProgress(books[i]) > books[i].total
        /\ getRemainingAmount(books[i]) = 0

(* C2: over create, log, toggle, edit, delete and page load, longestStreak *)
(* never decreases from one state to the next, also after every book whose *)
(* logs formed the streak has been deleted.                                *)
C2_LongestStreakNeverDecreases ==
    [][lastCall' \in {"handleAddBook", "handleAddLog", "toggleBookCompletion",
                         "handleEditBook", "deleteBook", "DOMContentLoaded"}
          => longestStreak' >= longestStreak]_vars

(* C3, as stated: an achievement id that is unlocked is unlocked in the    *)
(* next state, whatever the operation (import included).                   *)
C3_UnlockedForever ==
    [][\A u \in 1..Len(achievements) :
          achievements[u].unlocked =>
              \E v \in 1..Len(achievements') :
                  /\ achievements'[v].id = achievements[u].id
                  /\ achievements'[v].unlocked]_vars

(* C3, amended: an achievement id that is unlocked is unlocked in the next *)
(* state under create, log, toggle, edit, delete, page load, export, a     *)
(* declined import and an import of a document without an achievement      *)
(* table; a confirmed import of a document that carries an achievement     *)
(* table replaces the table by the document's, locked entries included.    *)
C3_UnlockedUnlessImported ==
    [][\/ \A u \in 1..Len(achievements) :
             achievements[u].unlocked =>
                 \E v \in 1..Len(achievements') :
                     /\ achievements'[v].id = achievements[u].id
                     /\ achievements'[v].unlocked
       \/ \E data \in Documents :
             /\ data.achievements # <<>>
             /\ ImportFile(data, TRUE)
             /\ achievements' = data.achievements[1]]_vars

(* C3, witness: "first-book" is still unlocked after the last book has     *)
(* been deleted.                                                           *)
C3_Witness ==
    /\ lastCall = "deleteBook"
    /\ "books" \in written
    /\ Len(books) = 0
    /\ \E u \in 1..Len(achievements) :
           achievements[u].id = "first-book" /\ achievements[u].unlocked

(* C4: exporting and then at once importing the exported document, the     *)
(* import confirmed, leaves the books (ids, fields, logs, status,          *)
(* completed flag), currentStreak, longestStreak and the achievement table *)
(* as they were before the export.                                         *)
C4_ExportImportRoundTrip ==
    [][(/\ lastCall = "exportData"
        /\ exportFiles # <<>>
        /\ ImportFile(exportFiles[Len(exportFiles)], TRUE))
          => /\ books' = exportFiles[Len(exportFiles)].books[1]
             /\ books' = books
             /\ currentStreak' = currentStreak
             /\ longestStreak' = longestStreak
             /\ achievements' = achievements]_vars

(* C4, witness: a store with a started book, a streak and an unlocked      *)
(* achievement has been exported and imported back.                        *)
C4_Witness ==
    /\ lastCall = "importData"
    /\ "books" \in written
    /\ exportFiles # <<>>
    /\ books = exportFiles[Len(exportFiles)].books[1]
    /\ \E i \in 1..Len(books) : books[i].status = "in-progress"
    /\ longestStreak >= 1
    /\ \E u \in 1..Len(achievements) : achievements[u].unlocked

(* C5: toggleBookCompletion on a book that is not marked completed and has *)
(* a remaining amount > 0 adds exactly one log entry, dated today with the *)
(* remaining amount, to the book's logs and changes no other entry; after  *)
(* it totalProgress = target, completed is true and status is 'completed'. *)
C5_ToggleFillsRemaining ==
    [][\A bookId \in BookIds :
          LET i == FindBook(books, bookId)
          IN  (/\ IF i = 0 THEN FALSE
                  ELSE ~books[i].completed /\ getRemainingAmount(books[i]) > 0
               /\ ToggleClick(bookId))
                 => /\ Len(books') = Len(books)
                    /\ Len(books'[i].logs) = Len(books[i].logs) + 1
                    /\ \E k \in 1..Len(books'[i].logs) :
                          /\ books'[i].logs[k] =
                                 [date |-> IsoToday,
                                  amount |-> getRemainingAmount(books[i])]
                          /\ [j \in 1..Len(books[i].logs) |->
                                 books'[i].logs[IF j < k THEN j ELSE j + 1]]
                                 = books[i].logs
                    /\ getTotalProgress(books'[i]) = books'[i].total
                    /\ books'[i].completed
                    /\ books'[i].status = "completed"]_vars

(* C5, witness: a book with one log of its own has just been marked        *)
(* completed, which logged the rest for today.                             *)
C5_Witness ==
    /\ lastCall = "toggleBookCompletion"
    /\ Len(activityFeed) >= 2
    /\ activityFeed[1].type = "Achievement"
    /\ activityFeed[2].type = "Complete"
    /\ \E i \in 1..Len(books) :
          /\ books[i].completed
          /\ Len(books[i].logs) = 2
          /\ \E k \in 1..2 : books[i].logs[k].date = IsoToday
          /\ getTotalProgress(books[i]) = books[i].total

(* C6: toggleBookCompletion on a book that is marked completed leaves the  *)
(* book's logs, and so its totalProgress, as they are and leaves every     *)
(* other book unchanged.                                                   *)
C6_ToggleOffKeepsLogs ==
    [][\A bookId \in BookIds :
          LET i == FindBook(books, bookId)
          IN  (/\ IF i = 0 THEN FALSE ELSE books[i].completed
               /\ ToggleClick(bookId))
                 => /\ Len(books') = Len(books)
                    /\ books'[i].logs = books[i].logs
                    /\ getTotalProgress(books'[i]) = getTotalProgress(books[i])
                    /\ \A j \in 1..Len(books) : j # i => books'[j] = books[j]]_vars

(* C6, witness: of two books the one with logs has just had its mark       *)
(* removed: the toggle wrote the books and left none of them completed.    *)
C6_Witness ==
    /\ lastCall = "toggleBookCompletion"
    /\ "books" \in written
    /\ Len(books) = 2
    /\ \A i \in 1..Len(books) : ~books[i].completed
    /\ \E i \in 1..Len(books) : books[i].logs # <<>>

(* C7: in a step that does not delete a book (add, log, toggle, edit,      *)
(* change category, page load) every book stays, its totalProgress does    *)
(* not decrease and every one of its log entries is still there, as often  *)
(* as before; a delete leaves only books that were there, each unchanged.  *)
C7_LogsOnlyGrow ==
    [][IF lastCall' = "deleteBook"
       THEN \A i \in 1..Len(books') : \E j \in 1..Len(books) : books[j] = books'[i]
       ELSE \A i \in 1..Len(books) :
               /\ i <= Len(books')
               /\ books'[i].id = books[i].id
               /\ getTotalProgress(books'[i]) >= getTotalProgress(books[i])
               /\ \A k \in 1..Len(books[i].logs) :
                     Cardinality({m \in 1..Len(books'[i].logs) :
                                     books'[i].logs[m] = books[i].logs[k]})
                         >= Cardinality({m \in 1..Len(books[i].logs) :
                                            books[i].logs[m] = books[i].logs[k]})]_vars

(* C7, witness: a book that was logged and then marked completed has been  *)
(* edited and still has both log entries.                                  *)
C7_Witness ==
    /\ lastCall = "handleEditBook"
    /\ "books" \in written
    /\ \E i \in 1..Len(books) :
          /\ books[i].name = "Dune II"
          /\ Len(books[i].logs) = 2

(* C9: a create-book request with an empty name, an empty author or a      *)
(* target <= 0, and a log request for a book of the store with an amount   *)
(* <= 0, changes nothing: books with their logs and status, streaks,       *)
(* activity feed, achievements and the persisted slices stay as they were, *)
(* and nothing is written to storage.                                      *)
C9_RejectedRequestChangesNothing ==
    [][/\ \A form \in AddBookForms, elapsed \in {0, 1} :
             (/\ \/ Trim(form.name) = ""
                 \/ Trim(form.author) = ""
                 \/ FormAmount(form.type, form) <= 0
              /\ AddBookSubmit(form, elapsed))
                => /\ UNCHANGED <<books, currentStreak, longestStreak,
                                  activityFeed, achievements, storage>>
                   /\ written' = {}
       /\ \A bookId \in BookIds, date \in Dates, form \in LogForms :
             LET i == FindBook(books, bookId)
             IN  (/\ IF i = 0 THEN FALSE
                     ELSE FormAmount(books[i].type, form) <= 0
                  /\ LogSubmit(bookId, date, form))
                    => /\ UNCHANGED <<books, currentStreak, longestStreak,
                                      activityFeed, achievements, storage>>
                       /\ written' = {}]_vars

(* C9, witness: with a book in the store, a create-book request has just   *)
(* ended without a write, which only a rejected one does.                  *)
C9_Witness ==
    /\ lastCall = "handleAddBook"
    /\ written = {}
    /\ Len(books) >= 1
    /\ activityFeed # <<>>
    /\ storage.books # <<>>

(* C10: an operation given a book id that is not in the store (log         *)
(* progress, toggle completion, delete) leaves the in-memory store         *)
(* unchanged, appends no activity event and writes nothing to storage.     *)
C10_UnknownIdChangesNothing ==
    [][\A bookId \in BookIds, date \in Dates, form \in LogForms,
          confirmed \in BOOLEAN :
          (/\ FindBook(books, bookId) = 0
           /\ \/ LogSubmitBasic(bookId, date, form)
              \/ ToggleClickBasic(bookId)
              \/ DeleteClickBasic(bookId, confirmed))
             => /\ UNCHANGED <<books, currentStreak, longestStreak,
                               activityFeed, achievements, storage>>
                /\ written' = {}]_vars

(* C11: an import of a document that lacks the expected shape (a slice     *)
(* that should be a sequence is not one) changes no slice of the live      *)
(* store and no persisted slice.                                           *)
C11_FailedImportChangesNothing ==
    [][\A data \in MalformedDocuments :
          ImportFile(data, TRUE)
             => UNCHANGED <<books, currentStreak, longestStreak, activityFeed,
                            achievements, storage>>]_vars

(* C12: in every reachable state the activity feed holds at most 50        *)
(* events (a feed that is an array; addActivity puts the new event at the  *)
(* head and drops the oldest beyond 50).                                   *)
C12_FeedAtMostFifty ==
    IsArray(activityFeed) => Len(activityFeed) <= FeedCap

(* C13: after every operation a book (of a positive target) has status     *)
(* 'completed' if and only if its totalProgress >= target or its completed *)
(* flag was set by the completion toggle.  Of the flag the formula asks    *)
(* this much: status 'completed' comes with enough progress or with the    *)
(* flag, and the only book of the store, whose flag the toggle has just    *)
(* set (the feed is headed by its "Complete" event, below the achievements *)
(* it unlocked), still has status 'completed' after the next operation if  *)
(* it is still there with its flag.                                        *)
C13_CompletedIffProgressOrToggled ==
    [][/\ \A i \in 1..Len(books') :
             books'[i].total > 0 =>
                /\ getTotalProgress(books'[i]) >= books'[i].total
                      => books'[i].status = "completed"
                /\ books'[i].status = "completed"
                      => \/ getTotalProgress(books'[i]) >= books'[i].total
                         \/ books'[i].completed
       /\ (/\ lastCall = "toggleBookCompletion"
           /\ Len(books) = 1 /\ Len(books') = 1
           /\ books[1].completed /\ books'[1].completed
           /\ books[1].total > 0 /\ books'[1].total > 0
           /\ books'[1].id = books[1].id
           /\ \E k \in 1..Len(activityFeed) :
                 /\ activityFeed[k].type = "Complete"
                 /\ \A j \in 1..(k - 1) : activityFeed[j].type = "Achievement")
             => books'[1].status = "completed"]_vars

(* C14: after updateStreaks has run (a log was added, or the page was      *)
(* loaded), currentStreak is the number k of leading entries of the        *)
(* distinct log dates of all books, newest first, such that the i-th entry *)
(* is today minus i days: 0 when the newest date is not today, else the    *)
(* number of dates d such that every day from d to today has a log.        *)
(* Stated at the times of day when the local calendar day is the UTC day,  *)
(* so that today is the same day however it is read.                       *)
C14_CurrentStreakCountsBackFromToday ==
    (lastCall \in {"handleAddLog", "DOMContentLoaded"} /\ localShift = 0)
    => LET dates == AllDates(books)
           today == IsoToday
       IN  currentStreak =
               IF \E d \in dates : d > today THEN 0
               ELSE Cardinality({d \in dates :
                                    \A e \in d..today : e \in dates})

(* C15: in every reachable state the books have pairwise distinct ids,     *)
(* whatever the creates were, two at the same clock reading included.      *)
C15_DistinctIds ==
    \A i, j \in 1..Len(books) : i # j => books[i].id # books[j].id

(* C16: every book has a non-empty name, a non-empty author and a target   *)
(* that is a positive integer, after any sequence of creates and edits.    *)
C16_BooksWellFormed ==
    \A i \in 1..Len(books) :
        /\ books[i].name # ""
        /\ books[i].author # ""
        /\ books[i].total \in Nat \ {0}

(* C17: toggleBookCompletion on a book whose completed flag is true ends   *)
(* with that book's completed flag false.                                  *)
C17_ToggleOffClearsFlag ==
    [][\A bookId \in BookIds :
          LET i == FindBook(books, bookId)
          IN  (/\ IF i = 0 THEN FALSE ELSE books[i].completed
               /\ ToggleClick(bookId))
                 => ~books'[i].completed]_vars

(* C18: every book whose completed flag is true has a totalProgress of at  *)
(* least its target, after any sequence of create, log, toggle and edit.   *)
C18_CompletedHasReachedTarget ==
    \A i \in 1..Len(books) :
        books[i].completed => getTotalProgress(books[i]) >= books[i].total

(* C19: after every operation that creates a book, appends a log, toggles  *)
(* completion or edits a book (and so in every state these operations      *)
(* reach), a book's status is 'planned' if its totalProgress is 0,         *)
(* otherwise 'completed' if its totalProgress is at least its target,      *)
(* otherwise 'in-progress'.                                                *)
C19_StatusFollowsProgress ==
    \A i \in 1..Len(books) :
        LET progress == SumAmounts(books[i].logs)
        IN  books[i].status =
                IF progress = 0 THEN "planned"
                ELSE IF progress >= books[i].total THEN "completed"
                ELSE "in-progress"

(* C19, witness: a log has just been added to a book and left it short of  *)
(* its target, beside a book that has reached its target.                 *)
C19_Witness ==
    /\ lastCall = "handleAddLog"
    /\ "books" \in written
    /\ \E i \in 1..Len(books) :
          /\ books[i].status = "in-progress"
          /\ SumAmounts(books[i].logs) > 0
          /\ SumAmounts(books[i].logs) < books[i].total
    /\ \E j \in 1..Len(books) :
          /\ books[j].status = "completed"
          /\ SumAmounts(books[j].logs) >= books[j].total

(* C20: when updateStreaks runs on a non-empty set of log dates (a log was *)
(* added, or the page was loaded), the new longestStreak is the greatest   *)
(* of the longestStreak it found (the live value, or on page load the      *)
(* persisted one), the length of the longest run of consecutive calendar   *)
(* days among the distinct dates, and the new currentStreak.               *)
C20_LongestStreakIsMax ==
    [][(lastCall' \in {"handleAddLog", "DOMContentLoaded"}
           /\ AllDates(books') # {})
       => LET dates == AllDates(books')
              runs == {p[2] - p[1] + 1 :
                          p \in {q \in dates \X dates :
                                    /\ q[1] <= q[2]
                                    /\ \A e \in q[1]..q[2] : e \in dates}}
              longestRun == CHOOSE m \in runs : \A n \in runs : n <= m
              previous == IF lastCall' = "handleAddLog" THEN longestStreak
                          ELSE IF storage.streaks = <<>> THEN 0
                          ELSE storage.streaks[1].longestStreak
          IN  longestStreak' = Max(previous, Max(longestRun, currentStreak'))]_vars

(* C20, witness: a log has just been added to the one book left, on the    *)
(* only day with a log, and the longest streak is still the 2 it was       *)
(* before the other book was deleted.                                      *)
C20_Witness ==
    /\ lastCall = "handleAddLog"
    /\ Len(books) = 1
    /\ Cardinality(AllDates(books)) = 1
    /\ longestStreak = 2

(* C21: when updateStreaks has run (the page was loaded, a log was added   *)
(* or completion was toggled) while no book has any log, currentStreak and *)
(* longestStreak are both 0.                                               *)
C21_NoLogsNoStreaks ==
    (/\ lastCall \in {"DOMContentLoaded", "handleAddLog",
                      "toggleBookCompletion"}
     /\ AllDates(books) = {})
    => currentStreak = 0 /\ longestStreak = 0

(* C21, witness: the page has been loaded with books but no logs left, and *)
(* the longest streak, persisted as 2, is 0.                               *)
C21_Witness ==
    /\ lastCall = "DOMContentLoaded"
    /\ books # <<>>
    /\ AllDates(books) = {}
    /\ storage.streaks # <<>>
    /\ storage.streaks[1].longestStreak = 2
    /\ longestStreak = 0
    /\ currentStreak = 0

(* C22: after every completed operation, deleteBook included, currentStreak *)
(* is the current streak of the log dates of the books then in the store:  *)
(* 0 when the newest date is not today, else the number of dates d such    *)
(* that every day from d to today has a log.                               *)
C22_CurrentStreakOfBooksInStore ==
    LET dates == AllDates(books)
        today == IsoToday
    IN  currentStreak =
            IF \E d \in dates : d > today THEN 0
            ELSE Cardinality({d \in dates : \A e \in d..today : e \in dates})

(* C23: a confirmed import of a well-formed document (a backup made by     *)
(* export, a hand-made one with books only or with streaks only) replaces  *)
(* each of books, streaks and achievements by the document's when the      *)
(* document has that key, nothing of the previous value remaining (a book  *)
(* without category or status gets 'mama' and 'planned'), and leaves each  *)
(* of them as it is when the key is missing.                               *)
C23_ImportReplacesOrLeaves ==
    [][lastCall' = "importData" =>
       \A data \in Documents \cup {StreaksDocument} :
          ImportFile(data, TRUE)
          => /\ IF data.books = <<>> THEN books' = books
                ELSE /\ Len(books') = Len(data.books[1])
                     /\ \A k \in 1..Len(books') :
                           books'[k] =
                               [data.books[1][k] EXCEPT
                                   !.category = IF @ = "" THEN "mama" ELSE @,
                                   !.status = IF @ = "" THEN "planned" ELSE @]
             /\ IF data.streaks = <<>>
                THEN currentStreak' = currentStreak
                     /\ longestStreak' = longestStreak
                ELSE currentStreak' = data.streaks[1].currentStreak
                     /\ longestStreak' = data.streaks[1].longestStreak
             /\ IF data.achievements = <<>> THEN achievements' = achievements
                ELSE achievements' = data.achievements[1]]_vars

(* C23, witness: the document with the streaks only has been imported into *)
(* a store with a logged book and an unlocked achievement: the streaks are *)
(* the document's, the book and the achievement are still there.           *)
C23_Witness ==
    /\ lastCall = "importData"
    /\ currentStreak = StreaksDocument.streaks[1].currentStreak
    /\ longestStreak = StreaksDocument.streaks[1].longestStreak
    /\ \E i \in 1..Len(books) : books[i].logs # <<>>
    /\ \E u \in 1..Len(achievements) : achievements[u].unlocked

(* C24: after every log append and every completion toggle the logs of the *)
(* book it was called on are ordered by date, newest first.                *)
C24_LogsNewestFirst ==
    [][\A bookId \in BookIds :
          LET i == FindBook(books, bookId)
          IN  (/\ i # 0
               /\ "books" \in written'
               /\ \/ ToggleClick(bookId)
                  \/ \E date \in Dates, form \in LogForms :
                        LogSubmit(bookId, date, form))
              => \A k \in 1..(Len(books'[i].logs) - 1) :
                    books'[i].logs[k].date >= books'[i].logs[k + 1].date]_vars

(* C25: a log append on a known book with an amount > 0 increases the      *)
(* book's number of logs by exactly 1, the number of its logs of that date *)
(* by exactly 1, and its totalProgress by exactly the amount, also when    *)
(* the book already has a log of that date.                                *)
C25_LogAppendAddsOne ==
    [][lastCall' = "handleAddLog" =>
       \A bookId \in BookIds, date \in Dates, form \in LogForms :
          LET i == FindBook(books, bookId)
              amount == IF i = 0 THEN 0
                        ELSE IF books[i].type = "paper"
                             THEN ParseIntOr0(form.pages)
                             ELSE ParseIntOr0(form.hours) * 60
                                  + ParseIntOr0(form.minutes)
          IN  (amount > 0 /\ LogSubmit(bookId, date, form))
              => /\ Len(books'[i].logs) = Len(books[i].logs) + 1
                 /\ Cardinality({k \in 1..Len(books'[i].logs) :
                                    books'[i].logs[k].date = date})
                      = Cardinality({k \in 1..Len(books[i].logs) :
                                        books[i].logs[k].date = date}) + 1
                 /\ SumAmounts(books'[i].logs)
                      = SumAmounts(books[i].logs) + amount]_vars

(* C25, witness: a log has just been added and a book has two logs of one  *)
(* date, both counted in its totalProgress.                                *)
C25_Witness ==
    /\ lastCall = "handleAddLog"
    /\ "books" \in written
    /\ \E i \in 1..Len(books) :
          /\ Len(books[i].logs) = 2
          /\ books[i].logs[1].date = books[i].logs[2].date
          /\ SumAmounts(books[i].logs)
               = books[i].logs[1].amount + books[i].logs[2].amount

(* C26: after every completed state-changing operation (create, log,       *)
(* toggle, edit, delete, import) every achievement of the catalog whose    *)
(* predicate holds in the resulting state is unlocked: book count >= 1 and *)
(* >= 5, completed-book count >= 1 and >= 5, currentStreak >= 7 and >= 30. *)
C26_EarnedIsUnlocked ==
    LET Unlocked(id) == \E u \in 1..Len(achievements) :
                           achievements[u].id = id /\ achievements[u].unlocked
        completedBooks == Cardinality({i \in 1..Len(books) : books[i].completed})
    IN  lastCall \in {"handleAddBook", "handleAddLog", "toggleBookCompletion",
                      "handleEditBook", "deleteBook", "importData"}
        => /\ Len(books) >= 1 => Unlocked("first-book")
           /\ Len(books) >= FiveBooks => Unlocked("five-books")
           /\ completedBooks >= 1 => Unlocked("first-complete")
           /\ completedBooks >= FiveBooks => Unlocked("five-complete")
           /\ currentStreak >= StreakWeek => Unlocked("streak-7")
           /\ currentStreak >= StreakMonth => Unlocked("streak-30")

(* C27: a confirmed deleteBook of the id of a book in the store removes    *)
(* the book (every book) with that id and leaves the other books, fields   *)
(* and logs, as they are and in their order, and puts one delete event     *)
(* with the removed book's name at the head of the activity feed, the      *)
(* events that were there following it; a declined deleteBook changes      *)
(* nothing in memory or in storage.                                        *)
C27_DeleteRemovesOneBook ==
    [][lastCall' = "deleteBook" =>
       \A bookId \in BookIds :
          LET i == FindBook(books, bookId)
          IN  /\ (i # 0 /\ DeleteClick(bookId, TRUE))
                 => /\ books' = SelectSeq(books, LAMBDA b : b.id # bookId)
                    /\ activityFeed' # <<>>
                    /\ activityFeed'[1].type = "Delete"
                    /\ activityFeed'[1].bookName = books[i].name
                    /\ Tail(activityFeed') = activityFeed
              /\ DeleteClick(bookId, FALSE)
                 => UNCHANGED <<books, currentStreak, longestStreak,
                                activityFeed, achievements, storage>>]_vars

(* C27, witness: of two books the one added first has just been deleted;   *)
(* the other, with its logs, is still there and the feed is headed by the  *)
(* delete event with the deleted book's name.                              *)
C27_Witness ==
    /\ lastCall = "deleteBook"
    /\ "books" \in written
    /\ Len(books) = 1
    /\ books[1].logs # <<>>
    /\ activityFeed # <<>>
    /\ activityFeed[1].type = "Delete"
    /\ activityFeed[1].bookName # books[1].name
    /\ \E k \in 2..Len(activityFeed) :
          /\ activityFeed[k].type = "Add"
          /\ activityFeed[k].bookName = books[1].name
          /\ \E m \in (k + 1)..Len(activityFeed) :
                /\ activityFeed[m].type = "Add"
                /\ activityFeed[m].bookName = activityFeed[1].bookName

(* C28: every operation (add book, log progress, toggle completion either  *)
(* way, delete, edit, change category, import, export) that changes the    *)
(* books, the streaks or the achievements appends at least one event to    *)
(* the activity feed.                                                      *)
C28_EveryChangeIsRecorded ==
    [][(/\ lastCall' \in {"handleAddBook", "handleAddLog",
                         "toggleBookCompletion", "deleteBook",
                         "handleEditBook", "changeBookCategory",
                         "importData", "exportData"}
        /\ <<books, currentStreak, longestStreak, achievements>>'
             # <<books, currentStreak, longestStreak, achievements>>)
       => Len(activityFeed') > Len(activityFeed)]_vars

(* C29: loading the page again right after any completed operation, on the *)
(* same day, yields the books, the currentStreak and the longestStreak     *)
(* that were in memory before.                                             *)
C29_ReloadKeepsBooksAndStreaks ==
    [][lastCall' = "DOMContentLoaded"
       => /\ books' = books
          /\ currentStreak' = currentStreak
          /\ longestStreak' = longestStreak]_vars

(* C30: whenever some book has a log dated today, currentStreak is at      *)
(* least 1 after updateStreaks has run (a log was added, completion was    *)
(* toggled or the page was loaded), whatever other dates have logs.        *)
C30_LogTodayMeansStreak ==
    (/\ \/ lastCall = "DOMContentLoaded"
        \/ /\ lastCall \in {"handleAddLog", "toggleBookCompletion"}
           /\ "streaks" \in written
     /\ IsoToday \in AllDates(books))
    => currentStreak >= 1

=============================================================================
